---- MODULE Spec2Model ----
\* Verification model of the Uniswap v4 liquidity bot (uniswap-reward-liq):
\*   - the monitoring scheduler of src/index.ts (main, createInitialPosition and
\*     the CronJob callback of startMonitoring), one action per suspension point;
\*   - the position sizer computeCounterpartyAmounts with nearestUsableTick;
\*   - the rebalance evaluation of the CronJob callback.
\* TLC's integers are 32 bits wide while the program computes on bigint values
\* around 2^96, so the fixed-point scale Q96 and the balances are scaled down;
\* every product the program forms stays below 2^31 within the bounds used.
EXTENDS Integers, Naturals, Sequences, FiniteSets, Bags, TLC

VARIABLES
  currentPositionId,  \* index.ts:37, 0 stands for undefined
  outOfRangeCount,    \* index.ts:38
  isProcessing,       \* index.ts:39
  mainPc,             \* where main() is suspended
  runs,               \* the CronJob callback runs in flight: a bag of [pc, pos], pc the await
                      \* a run is suspended on and pos the tokenId it read currentPositionId as
  liquid,             \* on-chain: tokenIds whose position holds liquidity
  minted,             \* on-chain: number of tokenIds minted so far
  removalRequests,    \* history: tokenIds a removal request was emitted for
  run,                \* history: consecutive out-of-range observations of the position
                      \* tracked, since it began being tracked
  recording,          \* whether the behaviour keeps the two history variables
  sz,                 \* sizer specification: inputs and outcome of one sizing call
  rb,                 \* rebalance specification: inputs and outcome of one evaluation
  nt,                 \* tick-range specification: one call of nearestUsableTick
  dl,                 \* amount-delta specification: one call of each SqrtPriceMath delta
  pv,                 \* position-value specification: one position valued at one pool state
  fc                  \* tick-bitmap specification: one call of findClosestInitializedTick

mathVars == <<nt, dl, pv, fc>>

vars == <<currentPositionId, outOfRangeCount, isProcessing, mainPc, runs,
          liquid, minted, removalRequests, run, recording, sz, rb, nt, dl, pv, fc>>

monitorVars == <<currentPositionId, outOfRangeCount, isProcessing, mainPc, runs,
                 liquid, minted, removalRequests, run, recording>>

-----------------------------------------------------------------------------
\* Bounds of the model.

MaxCycles == 2      \* CronJob callback runs that may be in flight together
MaxPositions == 2   \* tokenIds the position manager mints in one behaviour
MaxCount == 11      \* cap on outOfRangeCount

\* Program constants.

OUT_OF_RANGE_THRESHOLD == 10
None == 0

Ids == 1..MaxPositions

\* Callback runs are interchangeable, so the runs in flight form a bag.
\* seen is pos.inRange as the run read it: "in", "out", or "none" before the read.
Run(pcv, p) == [pc |-> pcv, pos |-> p, seen |-> "none"]
InFlight == BagToSet(runs)
Started(r) == runs (+) SetToBag({r})
Ended(r) == runs (-) SetToBag({r})
Moved(r, pcv) == Ended(r) (+) SetToBag({[r EXCEPT !.pc = pcv]})
Observed(r, pcv, seen) == Ended(r) (+) SetToBag({[r EXCEPT !.pc = pcv, !.seen = seen]})

-----------------------------------------------------------------------------
\* Outcomes of computeCounterpartyAmounts as the scheduler sees them: it either
\* resolves with amounts or rejects (the rejection is caught in
\* createInitialPosition).
SizerOutcomes == {"ok", "throw"}

-----------------------------------------------------------------------------
\* main(): analyzeAllPositions, adoption of a matching position, otherwise
\* createInitialPosition; then startMonitoring.

MainAdopts ==
  /\ mainPc = "main_analyze"
  /\ \E p \in liquid : currentPositionId' = p
  /\ run' = 0
  /\ mainPc' = "monitoring"
  /\ UNCHANGED <<outOfRangeCount, isProcessing, runs, liquid, minted,
                 removalRequests, recording, sz, rb, mathVars>>

MainNoMatch ==
  /\ mainPc = "main_analyze"
  /\ liquid = {}
  /\ mainPc' = "create_size"
  /\ UNCHANGED <<currentPositionId, outOfRangeCount, isProcessing, runs,
                 liquid, minted, removalRequests, run, recording, sz, rb, mathVars>>

\* analyzeAllPositions rejected: process.exit(1).
MainAnalyzeFails ==
  /\ mainPc = "main_analyze"
  /\ mainPc' = "exited"
  /\ UNCHANGED <<currentPositionId, outOfRangeCount, isProcessing, runs,
                 liquid, minted, removalRequests, run, recording, sz, rb, mathVars>>

\* createInitialPosition: createPosition resolved with info, whose tokenId
\* becomes the tracked position.
TrackCreated ==
  /\ minted < MaxPositions
  /\ minted' = minted + 1
  /\ liquid' = liquid \cup {minted + 1}
  /\ currentPositionId' = minted + 1
  /\ run' = 0
  /\ UNCHANGED outOfRangeCount

\* createInitialPosition called from main, first await: computeCounterpartyAmounts.
MainSizeReturns ==
  /\ mainPc = "create_size"
  /\ \E outcome \in SizerOutcomes :
       mainPc' = IF outcome = "ok" THEN "create_mint" ELSE "monitoring"
  /\ UNCHANGED <<currentPositionId, outOfRangeCount, isProcessing, runs,
                 liquid, minted, removalRequests, run, recording, sz, rb, mathVars>>

\* second await: createPosition resolved.
MainMintSucceeds ==
  /\ mainPc = "create_mint"
  /\ TrackCreated
  /\ mainPc' = "monitoring"
  /\ UNCHANGED <<isProcessing, runs, removalRequests, recording, sz, rb, mathVars>>

\* createPosition rejected (reverted transaction, RPC error): caught and logged.
MainMintFails ==
  /\ mainPc = "create_mint"
  /\ mainPc' = "monitoring"
  /\ UNCHANGED <<currentPositionId, outOfRangeCount, isProcessing, runs,
                 liquid, minted, removalRequests, run, recording, sz, rb, mathVars>>

-----------------------------------------------------------------------------
\* The CronJob callback of startMonitoring.

\* The timer fires: the callback runs up to its first await.
TimerTick ==
  /\ mainPc = "monitoring"
  /\ BagCardinality(runs) < MaxCycles
  /\ ~isProcessing
  /\ runs' = Started(Run(IF currentPositionId = None THEN "create_size" ELSE "getPos",
                         currentPositionId))
  /\ UNCHANGED <<currentPositionId, outOfRangeCount, isProcessing, mainPc,
                 liquid, minted, removalRequests, run, recording, sz, rb, mathVars>>

\* createInitialPosition called from the callback; the callback returns after it.
SizeReturns(r) ==
  /\ mainPc = "monitoring"
  /\ r.pc = "create_size"
  /\ \E outcome \in SizerOutcomes :
       runs' = IF outcome = "ok" THEN Moved(r, "create_mint") ELSE Ended(r)
  /\ UNCHANGED <<currentPositionId, outOfRangeCount, isProcessing, mainPc,
                 liquid, minted, removalRequests, run, recording, sz, rb, mathVars>>

MintSucceeds(r) ==
  /\ mainPc = "monitoring"
  /\ r.pc = "create_mint"
  /\ TrackCreated
  /\ runs' = Ended(r)
  /\ UNCHANGED <<isProcessing, mainPc, removalRequests, recording, sz, rb, mathVars>>

MintFails(r) ==
  /\ mainPc = "monitoring"
  /\ r.pc = "create_mint"
  /\ runs' = Ended(r)
  /\ UNCHANGED <<currentPositionId, outOfRangeCount, isProcessing, mainPc,
                 liquid, minted, removalRequests, run, recording, sz, rb, mathVars>>

\* Variant of GetPosThrows: the rejection is not caught and ends the process.
GetPosThrowsFatal(r) ==
  /\ mainPc = "monitoring"
  /\ r.pc = "getPos"
  /\ runs' = Ended(r)
  /\ mainPc' = "exited"
  /\ UNCHANGED <<currentPositionId, outOfRangeCount, isProcessing,
                 liquid, minted, removalRequests, run, recording, sz, rb, mathVars>>

\* getPositionInfo rejected: the catch block logs and the callback ends.
GetPosThrows(r) ==
  /\ mainPc = "monitoring"
  /\ r.pc = "getPos"
  /\ runs' = Ended(r)
  /\ UNCHANGED <<currentPositionId, outOfRangeCount, isProcessing, mainPc,
                 liquid, minted, removalRequests, run, recording, sz, rb, mathVars>>

\* getPositionInfo resolved with undefined (zero liquidity).
GetPosClosed(r) ==
  /\ mainPc = "monitoring"
  /\ r.pc = "getPos"
  /\ r.pos \notin liquid
  /\ currentPositionId' = None
  /\ runs' = Ended(r)
  /\ UNCHANGED <<outOfRangeCount, isProcessing, mainPc, liquid, minted,
                 removalRequests, run, recording, sz, rb, mathVars>>

\* getPositionInfo resolved with pos.inRange true.
GetPosInRange(r) ==
  /\ mainPc = "monitoring"
  /\ r.pc = "getPos"
  /\ r.pos \in liquid
  /\ outOfRangeCount' = 0
  /\ run' = IF recording /\ r.pos = currentPositionId THEN 0 ELSE run
  /\ runs' = Observed(r, "reads", "in")
  /\ UNCHANGED <<currentPositionId, isProcessing, mainPc, liquid, minted,
                 removalRequests, recording, sz, rb, mathVars>>

\* The branch taken when pos.inRange is false: the counter is incremented and,
\* at the threshold, removePositionIfOutOfRange is called.
CountOutOfRange(r) ==
  /\ outOfRangeCount' = outOfRangeCount + 1
  /\ IF outOfRangeCount + 1 >= OUT_OF_RANGE_THRESHOLD
       THEN /\ removalRequests' = IF recording THEN removalRequests \cup {r.pos}
                                                ELSE removalRequests
            /\ runs' = Observed(r, "remove", "out")
       ELSE /\ UNCHANGED removalRequests
            /\ runs' = Observed(r, "reads", "out")

\* getPositionInfo resolved with pos.inRange false.
GetPosOutOfRange(r) ==
  /\ mainPc = "monitoring"
  /\ r.pc = "getPos"
  /\ r.pos \in liquid
  /\ outOfRangeCount < MaxCount
  /\ run < MaxCount
  /\ run' = IF recording /\ r.pos = currentPositionId THEN run + 1 ELSE run
  /\ CountOutOfRange(r)
  /\ UNCHANGED <<currentPositionId, isProcessing, mainPc, liquid, minted, recording, sz, rb, mathVars>>

\* What the callback does once removePositionIfOutOfRange has resolved.
AfterRemoval(r) ==
  /\ currentPositionId' = None
  /\ outOfRangeCount' = 0
  /\ runs' = Moved(r, "reads")

\* The removal transaction was mined and succeeded.
RemoveSucceeds(r) ==
  /\ mainPc = "monitoring"
  /\ r.pc = "remove"
  /\ liquid' = liquid \ {r.pos}
  /\ AfterRemoval(r)
  /\ UNCHANGED <<isProcessing, mainPc, minted, removalRequests, run, recording, sz, rb, mathVars>>

\* The removal transaction was mined but reverted: waitForTransactionReceipt
\* resolves all the same and the receipt's status is not read.
RemoveReverts(r) ==
  /\ mainPc = "monitoring"
  /\ r.pc = "remove"
  /\ r.pos \in liquid
  /\ AfterRemoval(r)
  /\ UNCHANGED <<isProcessing, mainPc, liquid, minted, removalRequests, run, recording, sz, rb, mathVars>>

\* Variant of AfterRemovalError: the position is declared closed although the
\* removal was rejected.
AfterRemovalErrorClears(r) ==
  /\ runs' = Ended(r)
  /\ currentPositionId' = None
  /\ outOfRangeCount' = 0

\* What the callback does when removePositionIfOutOfRange rejects: the catch
\* block at the end of the callback logs the error.
AfterRemovalError(r) ==
  /\ runs' = Ended(r)
  /\ UNCHANGED <<currentPositionId, outOfRangeCount>>

RemoveThrows(r) ==
  /\ mainPc = "monitoring"
  /\ r.pc = "remove"
  /\ AfterRemovalError(r)
  /\ UNCHANGED <<isProcessing, mainPc, liquid, minted, removalRequests, run, recording, sz, rb, mathVars>>

\* SIGINT or SIGTERM: the handler registered by startMonitoring stops the job
\* and calls process.exit(0). The callback runs in flight are never resumed.
Shutdown ==
  /\ mainPc = "monitoring"
  /\ mainPc' = "stopped"
  /\ UNCHANGED <<currentPositionId, outOfRangeCount, isProcessing, runs,
                 liquid, minted, removalRequests, run, recording, sz, rb, mathVars>>

\* The owner closes the tracked position on-chain.
ExternalClose(p) ==
  /\ mainPc = "monitoring"
  /\ p \in liquid
  /\ p = currentPositionId
  /\ liquid' = liquid \ {p}
  /\ UNCHANGED <<currentPositionId, outOfRangeCount, isProcessing, mainPc, runs,
                 minted, removalRequests, run, recording, sz, rb, mathVars>>

-----------------------------------------------------------------------------
\* Position sizing: nearestUsableTick and computeCounterpartyAmounts.

MaxTick == 60       \* pool ticks range over -MaxTick..MaxTick
MaxBal == 4         \* wallet balances (raw units) range over 0..MaxBal
Q96 == 256          \* stands for 2^96, the scale of sqrtPriceX96
TickSpacing == 60
BALANCE_RATIO == 40
DEFAULT_PERCENTAGE == 50
DEFAULT_RANGE_WIDTH == 1
TICK_RANGE == 5

\* Math.floor(tick / tickSpacing) and Math.ceil(tick / tickSpacing).
Floor(a, b) == a \div b
Ceil(a, b) == -((-a) \div b)

\* TickMath.getSqrtRatioAtTick: strictly increasing in the tick, Q96 at tick 0.
\* At the reduced scale the curve 1.0001^(tick/2) is replaced by its tangent.
getSqrtRatioAtTick(tick) == Q96 + tick

\* Variant of nearestUsableTick: the range is centred on the tick's multiple of
\* the spacing, one spacing to each side.
nearestUsableTickCentred(tick, tickSpacing, rangeWidth) ==
  LET lowerTick == Floor(tick, tickSpacing) * tickSpacing
  IN  [tickLower |-> lowerTick - rangeWidth * tickSpacing,
       tickUpper |-> lowerTick + rangeWidth * tickSpacing]

\* Variant of nearestUsableTick: the upper tick is the ceiling multiple even
\* when it coincides with the lower one.
nearestUsableTickNoStep(tick, tickSpacing, rangeWidth) ==
  LET lowerTick == Floor(tick, tickSpacing) * tickSpacing
      upperTick == Ceil(tick, tickSpacing) * tickSpacing
  IN  [tickLower |-> lowerTick - (rangeWidth - 1) * tickSpacing,
       tickUpper |-> upperTick + (rangeWidth - 1) * tickSpacing]

\* Variant of nearestUsableTick: a range of width w > 1 is widened by w
\* spacings on each side.
nearestUsableTickWidenedByWidth(tick, tickSpacing, rangeWidth) ==
  LET lowerTick == Floor(tick, tickSpacing) * tickSpacing
      ceilTick == Ceil(tick, tickSpacing) * tickSpacing
      upperTick == IF ceilTick <= lowerTick THEN lowerTick + tickSpacing ELSE ceilTick
  IN  IF rangeWidth = 1
        THEN [tickLower |-> lowerTick, tickUpper |-> upperTick]
        ELSE [tickLower |-> lowerTick - rangeWidth * tickSpacing,
              tickUpper |-> upperTick + rangeWidth * tickSpacing]

nearestUsableTick(tick, tickSpacing, rangeWidth) ==
  LET lowerTick == Floor(tick, tickSpacing) * tickSpacing
      ceilTick == Ceil(tick, tickSpacing) * tickSpacing
      upperTick == IF ceilTick <= lowerTick THEN lowerTick + tickSpacing ELSE ceilTick
  IN  IF rangeWidth = 1
        THEN [tickLower |-> lowerTick, tickUpper |-> upperTick]
        ELSE [tickLower |-> lowerTick - (rangeWidth - 1) * tickSpacing,
              tickUpper |-> upperTick + (rangeWidth - 1) * tickSpacing]

\* percentage of line 48: BigInt(Number(BALANCE_RATIO) * 100) when the
\* environment variable BALANCE_RATIO is set, 50n otherwise.
Percentage(envSet) == IF envSet THEN BALANCE_RATIO * 100 ELSE DEFAULT_PERCENTAGE

DeployableBalance(balanceWei, envSet) == (balanceWei * Percentage(envSet)) \div 100

\* Variant of Token0IsConstraint: the orientation is inverted.
Token0IsConstraintInverted(value0Raw, bal1Raw) == value0Raw > bal1Raw

\* The binding side: token0 when value0Raw < bal1Raw.
Token0IsConstraint(value0Raw, bal1Raw) == value0Raw < bal1Raw

\* computeCounterpartyAmounts on wallet balances balanceWei0 / balanceWei1 and
\* the pool state (tick, sqrtPriceX96). status "divzero" is the RangeError a
\* bigint division by zero raises.
computeCounterpartyAmounts(balanceWei0, balanceWei1, envSet, tick, sqrtPriceX96) ==
  LET range == nearestUsableTick(tick, TickSpacing, DEFAULT_RANGE_WIDTH)
      sqrtLower == getSqrtRatioAtTick(range.tickLower)
      sqrtUpper == getSqrtRatioAtTick(range.tickUpper)
      bal0Raw == DeployableBalance(balanceWei0, envSet)
      bal1Raw == DeployableBalance(balanceWei1, envSet)
      priceX192 == sqrtPriceX96 * sqrtPriceX96
      value0Raw == (bal0Raw * priceX192) \div (Q96 * Q96)
      base == [tickLower |-> range.tickLower, tickUpper |-> range.tickUpper,
               bal0 |-> bal0Raw, bal1 |-> bal1Raw,
               status |-> "divzero", amount0 |-> 0, amount1 |-> 0]
  IN  IF Token0IsConstraint(value0Raw, bal1Raw)
        THEN IF (sqrtUpper - sqrtPriceX96) * Q96 = 0
               THEN base
               ELSE LET liquidity == (bal0Raw * sqrtPriceX96 * sqrtUpper)
                                       \div ((sqrtUpper - sqrtPriceX96) * Q96)
                    IN  [base EXCEPT !.status = "ok",
                                     !.amount0 = bal0Raw,
                                     !.amount1 = (liquidity * (sqrtPriceX96 - sqrtLower)) \div Q96]
        ELSE IF sqrtPriceX96 - sqrtLower = 0
               THEN base
               ELSE LET liquidity == (bal1Raw * Q96) \div (sqrtPriceX96 - sqrtLower)
                    IN  [base EXCEPT !.status = "ok",
                                     !.amount1 = bal1Raw,
                                     !.amount0 = (liquidity * (sqrtUpper - sqrtPriceX96) * Q96)
                                                   \div (sqrtUpper * sqrtPriceX96)]

\* Pool states: the tick is consistent with sqrtPriceX96 (a price exactly on the
\* next tick's boundary keeps the lower tick after a downward swap).
PoolStates ==
  {ps \in [tick : (-MaxTick)..MaxTick, sqrtPriceX96 : 1..(Q96 + MaxTick + 1)] :
     /\ getSqrtRatioAtTick(ps.tick) <= ps.sqrtPriceX96
     /\ ps.sqrtPriceX96 <= getSqrtRatioAtTick(ps.tick + 1)}

SzIdle ==
  [balanceWei0 |-> 0, balanceWei1 |-> 0, envSet |-> FALSE, tick |-> 0, sqrtPriceX96 |-> Q96,
   phase |-> "unused", out |-> computeCounterpartyAmounts(0, 0, FALSE, 0, Q96)]

SizerCall ==
  computeCounterpartyAmounts(sz.balanceWei0, sz.balanceWei1, sz.envSet, sz.tick, sz.sqrtPriceX96)


-----------------------------------------------------------------------------
\* Range and amount arithmetic on its own: nearestUsableTick over tick spacings
\* and range widths, and the amount deltas of SqrtPriceMath.

MaxSpacing == 4     \* tick spacings range over 1..MaxSpacing and TickSpacing
MaxWidth == 3       \* range widths range over 1..MaxWidth and TICK_RANGE
MaxSqrt == 12       \* sqrt prices handed to the deltas range over 1..MaxSqrt
MaxLiq == 4         \* liquidity ranges over 0..MaxLiq

NtInputs ==
  [tick : (-MaxTick)..MaxTick,
   tickSpacing : (1..MaxSpacing) \cup {TickSpacing},
   rangeWidth : (1..MaxWidth) \cup {TICK_RANGE}]

NtIdle ==
  [in |-> [tick |-> 0, tickSpacing |-> TickSpacing, rangeWidth |-> DEFAULT_RANGE_WIDTH],
   phase |-> "unused", out |-> [tickLower |-> 0, tickUpper |-> 0]]

\* Variant of mulDivRoundingUp: the quotient is not raised.
mulDivTruncating(a, b, denominator) == (a * b) \div denominator

\* FullMath.mulDivRoundingUp (denominator > 0).
mulDivRoundingUp(a, b, denominator) ==
  LET product == a * b
      result == product \div denominator
  IN  IF product % denominator # 0 THEN result + 1 ELSE result

\* Variant of getAmount0Delta: the two prices are used in the order given.
getAmount0DeltaUnordered(sqrtRatioAX96, sqrtRatioBX96, liquidity, roundUp) ==
  LET numerator1 == liquidity * Q96
      numerator2 == sqrtRatioBX96 - sqrtRatioAX96
  IN  IF roundUp
        THEN mulDivRoundingUp(mulDivRoundingUp(numerator1, numerator2, sqrtRatioBX96),
                              1, sqrtRatioAX96)
        ELSE ((numerator1 * numerator2) \div sqrtRatioBX96) \div sqrtRatioAX96

\* SqrtPriceMath.getAmount0Delta; liquidity << 96 is liquidity * Q96. All
\* operands are non-negative after the reordering, where the truncating
\* division of bigint is the floor.
getAmount0Delta(sqrtRatioAX96, sqrtRatioBX96, liquidity, roundUp) ==
  LET A == IF sqrtRatioAX96 > sqrtRatioBX96 THEN sqrtRatioBX96 ELSE sqrtRatioAX96
      B == IF sqrtRatioAX96 > sqrtRatioBX96 THEN sqrtRatioAX96 ELSE sqrtRatioBX96
      numerator1 == liquidity * Q96
      numerator2 == B - A
  IN  IF roundUp
        THEN mulDivRoundingUp(mulDivRoundingUp(numerator1, numerator2, B), 1, A)
        ELSE ((numerator1 * numerator2) \div B) \div A

\* SqrtPriceMath.getAmount1Delta.
getAmount1Delta(sqrtRatioAX96, sqrtRatioBX96, liquidity, roundUp) ==
  LET A == IF sqrtRatioAX96 > sqrtRatioBX96 THEN sqrtRatioBX96 ELSE sqrtRatioAX96
      B == IF sqrtRatioAX96 > sqrtRatioBX96 THEN sqrtRatioAX96 ELSE sqrtRatioBX96
      difference == B - A
  IN  IF roundUp THEN mulDivRoundingUp(liquidity, difference, Q96)
                 ELSE (liquidity * difference) \div Q96

DlInputs ==
  [sqrtRatioAX96 : 1..MaxSqrt, sqrtRatioBX96 : 1..MaxSqrt,
   liquidity : 0..MaxLiq, roundUp : BOOLEAN]

DlIdle ==
  [in |-> [sqrtRatioAX96 |-> 1, sqrtRatioBX96 |-> 1, liquidity |-> 0, roundUp |-> FALSE],
   phase |-> "unused", amount0 |-> 0, amount1 |-> 0, mulDiv |-> 0]

\* Variant of getAmount0: a position entirely above the current tick is
\* valued as one straddling it.
getAmount0NoAboveCase(tickLower, tickUpper, currTick, amount, currSqrtPriceX96) ==
  LET sqrtRatioAX96 == getSqrtRatioAtTick(tickLower)
      sqrtRatioBX96 == getSqrtRatioAtTick(tickUpper)
      roundUp == amount > 0
  IN  IF currTick < tickLower
        THEN getAmount0Delta(sqrtRatioAX96, sqrtRatioBX96, amount, roundUp)
        ELSE getAmount0Delta(currSqrtPriceX96, sqrtRatioBX96, amount, roundUp)

\* getAmount0: token0 held by a position of liquidity amount.
getAmount0(tickLower, tickUpper, currTick, amount, currSqrtPriceX96) ==
  LET sqrtRatioAX96 == getSqrtRatioAtTick(tickLower)
      sqrtRatioBX96 == getSqrtRatioAtTick(tickUpper)
      roundUp == amount > 0
  IN  IF currTick < tickLower
        THEN getAmount0Delta(sqrtRatioAX96, sqrtRatioBX96, amount, roundUp)
      ELSE IF currTick < tickUpper
        THEN getAmount0Delta(currSqrtPriceX96, sqrtRatioBX96, amount, roundUp)
      ELSE 0

\* getAmount1: token1 held by a position of liquidity amount.
getAmount1(tickLower, tickUpper, currTick, amount, currSqrtPriceX96) ==
  LET sqrtRatioAX96 == getSqrtRatioAtTick(tickLower)
      sqrtRatioBX96 == getSqrtRatioAtTick(tickUpper)
      roundUp == amount > 0
  IN  IF currTick < tickLower
        THEN 0
      ELSE IF currTick < tickUpper
        THEN getAmount1Delta(sqrtRatioAX96, currSqrtPriceX96, amount, roundUp)
      ELSE getAmount1Delta(sqrtRatioAX96, sqrtRatioBX96, amount, roundUp)

\* The branch getAmount0 and getAmount1 take.
AmountCase(tickLower, tickUpper, currTick) ==
  IF currTick < tickLower THEN "below"
  ELSE IF currTick < tickUpper THEN "straddling"
  ELSE "above"

\* inRange as getPositionInfo computes it.
InRange(tick, tickLower, tickUpper) == tick >= tickLower /\ tick <= tickUpper

\* Positions: ranges between two multiples of the tick spacing.
PositionRanges ==
  {pr \in [tickLower : (-MaxTick)..MaxTick, tickUpper : (-MaxTick)..MaxTick] :
     /\ pr.tickLower % TickSpacing = 0
     /\ pr.tickUpper % TickSpacing = 0
     /\ pr.tickLower < pr.tickUpper}

PvIdle ==
  [in |-> [tickLower |-> 0, tickUpper |-> TickSpacing, currTick |-> 0, amount |-> 0,
           currSqrtPriceX96 |-> Q96],
   phase |-> "unused", amount0 |-> 0, amount1 |-> 0, case |-> "straddling", inRange |-> TRUE]

WordSize == 4        \* stands for 256, the number of ticks a tick-bitmap word covers
MaxWordTick == 8     \* ticks handed to findClosestInitializedTick range over -MaxWordTick..MaxWordTick

\* A tick-bitmap word is the set of its bits that are set.
Words == SUBSET (0..(WordSize - 1))

\* The tick of bit i of the word at index wordIndex.
TickOfBit(wordIndex, i, tickSpacing) == (wordIndex * WordSize + i) * tickSpacing

\* The first loop of findClosestInitializedTick, from bit i downwards: last is
\* lowerInitializedTick so far, null when found is FALSE.
RECURSIVE ScanDown(_, _, _, _, _, _)
ScanDown(lowerBitmap, wordIndex, tickSpacing, currentTick, i, last) ==
  IF i < 0 THEN last
  ELSE IF i \in lowerBitmap
    THEN LET t == [found |-> TRUE, tick |-> TickOfBit(wordIndex, i, tickSpacing)]
         IN  IF t.tick <= currentTick
               THEN t
               ELSE ScanDown(lowerBitmap, wordIndex, tickSpacing, currentTick, i - 1, t)
  ELSE ScanDown(lowerBitmap, wordIndex, tickSpacing, currentTick, i - 1, last)

\* The second loop, from bit i upwards.
RECURSIVE ScanUp(_, _, _, _, _, _)
ScanUp(upperBitmap, wordIndex, tickSpacing, currentTick, i, last) ==
  IF i >= WordSize THEN last
  ELSE IF i \in upperBitmap
    THEN LET t == [found |-> TRUE, tick |-> TickOfBit(wordIndex, i, tickSpacing)]
         IN  IF t.tick > currentTick
               THEN t
               ELSE ScanUp(upperBitmap, wordIndex, tickSpacing, currentTick, i + 1, t)
  ELSE ScanUp(upperBitmap, wordIndex, tickSpacing, currentTick, i + 1, last)

NullTick == [found |-> FALSE, tick |-> 0]

\* findClosestInitializedTick on the two words read; status "throw" is the
\* Error 'No initialized tick found in nearby range'.
findClosestInitializedTick(lowerBitmap, upperBitmap, currentTick, tickSpacing) ==
  LET lowerTickBitmapIndex == Floor(currentTick, tickSpacing * WordSize)
      upperTickBitmapIndex == lowerTickBitmapIndex + 1
      lowerInitializedTick == ScanDown(lowerBitmap, lowerTickBitmapIndex, tickSpacing,
                                       currentTick, WordSize - 1, NullTick)
      upperInitializedTick == ScanUp(upperBitmap, upperTickBitmapIndex, tickSpacing,
                                     currentTick, 0, NullTick)
  IN  IF lowerInitializedTick.found /\ upperInitializedTick.found
        THEN IF currentTick - lowerInitializedTick.tick <= upperInitializedTick.tick - currentTick
               THEN [status |-> "ok", tick |-> lowerInitializedTick.tick]
               ELSE [status |-> "ok", tick |-> upperInitializedTick.tick]
      ELSE IF lowerInitializedTick.found
        THEN [status |-> "ok", tick |-> lowerInitializedTick.tick]
      ELSE IF upperInitializedTick.found
        THEN [status |-> "ok", tick |-> upperInitializedTick.tick]
      ELSE [status |-> "throw", tick |-> 0]

FcInputs ==
  [lowerBitmap : Words, upperBitmap : Words,
   currentTick : (-MaxWordTick)..MaxWordTick, tickSpacing : 1..MaxSpacing]

FcIdle ==
  [in |-> [lowerBitmap |-> {}, upperBitmap |-> {}, currentTick |-> 0, tickSpacing |-> 1],
   phase |-> "unused", out |-> [status |-> "throw", tick |-> 0]]

MathIdle == nt = NtIdle /\ dl = DlIdle /\ pv = PvIdle /\ fc = FcIdle

-----------------------------------------------------------------------------
\* Rebalance evaluation of the CronJob callback (index.ts lines 132-188).
\* The program computes on floating-point numbers; the model computes the same
\* quantities exactly, as integers over the common denominator
\* 10^decimals0 * 10^decimals1.

MaxWei == 4         \* wallet balances (raw units) range over 0..MaxWei
MaxPrice == 3       \* USD prices range over 1..MaxPrice; 0 stands for null
Dec0 == 2           \* decimals of token0 (stands for 18)
Dec1 == 1           \* decimals of token1 (stands for 6)
REBALANCE_THRESHOLD_PCT == 10
TARGET_PCT == 30

RECURSIVE Pow10(_)
Pow10(n) == IF n = 0 THEN 1 ELSE 10 * Pow10(n - 1)

\* A balance read as getMultipleERC20Balances reports it: a failed read yields
\* balanceWei 0 and decimals 0.
ReadBalance(balanceWei, decimals, failed) ==
  IF failed THEN [balanceWei |-> 0, decimals |-> 0]
            ELSE [balanceWei |-> balanceWei, decimals |-> decimals]

\* Variant of ToFixed: the digits beyond the last one kept are cut off.
ToFixedTruncates(num, den, digits) == (num * Pow10(digits)) \div den

\* Number.prototype.toFixed(digits) of the quotient num / den (num, den > 0):
\* the integer n with n / 10^digits closest to the quotient, the larger n on a tie.
ToFixed(num, den, digits) == (2 * num * Pow10(digits) + den) \div (2 * den)

\* ratio <= REBALANCE_THRESHOLD for ratio = value / total; 0 / 0 is NaN and
\* compares false.
RatioLow(value, total) == total > 0 /\ 100 * value <= REBALANCE_THRESHOLD_PCT * total

\* Variant of PriceUnavailable: the evaluation is skipped only when both
\* prices are missing.
PriceUnavailableBoth(token0PriceUSD, token1PriceUSD) ==
  token0PriceUSD = 0 /\ token1PriceUSD = 0

\* !token0PriceUSD || !token1PriceUSD: null (and a price of 0) is falsy.
PriceUnavailable(token0PriceUSD, token1PriceUSD) ==
  token0PriceUSD = 0 \/ token1PriceUSD = 0

\* The digits handed to toFixed for the amountIn of either direction.
AmountInDigits(token0, token1) == token1.decimals

\* One evaluation on the balances read and the USD prices fetched (0 = null).
\* swap is the request emitted: "1to0" sells token1, "0to1" sells token0;
\* amountIn is the decimal string n / 10^digits.
Rebalance(token0, token1, token0PriceUSD, token1PriceUSD) ==
  LET scale0 == Pow10(token0.decimals)
      scale1 == Pow10(token1.decimals)
      token0ValueUSD == token0.balanceWei * token0PriceUSD * scale1
      token1ValueUSD == token1.balanceWei * token1PriceUSD * scale0
      totalValueUSD == token0ValueUSD + token1ValueUSD
      digits == AmountInDigits(token0, token1)
      none == [swap |-> "none", n |-> 0, digits |-> 0,
               value0 |-> token0ValueUSD, value1 |-> token1ValueUSD]
  IN  IF PriceUnavailable(token0PriceUSD, token1PriceUSD)
        THEN [none EXCEPT !.swap = "noprice"]
      ELSE IF RatioLow(token0ValueUSD, totalValueUSD)
        THEN [none EXCEPT !.swap = "1to0", !.digits = digits,
                !.n = ToFixed(TARGET_PCT * totalValueUSD - 100 * token0ValueUSD,
                              100 * token1PriceUSD * scale0 * scale1, digits)]
      ELSE IF RatioLow(token1ValueUSD, totalValueUSD)
        THEN [none EXCEPT !.swap = "0to1", !.digits = digits,
                !.n = ToFixed(TARGET_PCT * totalValueUSD - 100 * token1ValueUSD,
                              100 * token0PriceUSD * scale0 * scale1, digits)]
      ELSE none

RbInputs ==
  [balanceWei0 : 0..MaxWei, balanceWei1 : 0..MaxWei, failed0 : BOOLEAN, failed1 : BOOLEAN,
   token0PriceUSD : 0..MaxPrice, token1PriceUSD : 0..MaxPrice]

RebalanceOf(i) ==
  Rebalance(ReadBalance(i.balanceWei0, Dec0, i.failed0),
            ReadBalance(i.balanceWei1, Dec1, i.failed1),
            i.token0PriceUSD, i.token1PriceUSD)

\* No evaluation: what prev holds before the first swap has executed.
RbNone ==
  [in |-> [balanceWei0 |-> 0, balanceWei1 |-> 0, failed0 |-> FALSE, failed1 |-> FALSE,
           token0PriceUSD |-> 0, token1PriceUSD |-> 0],
   out |-> [swap |-> "none", n |-> 0, digits |-> 0, value0 |-> 0, value1 |-> 0]]

\* prev is the evaluation whose swap executed before the current one.
RbIdle ==
  [in |-> RbNone.in, phase |-> "unused", out |-> RbNone.out, prev |-> RbNone]

\* parseUnits(amountIn, decimals) in executeSwap, for amountIn the decimal
\* string n / 10^digits: digits beyond the token's decimals are rounded off.
ParseUnits(n, digits, decimals) ==
  IF digits <= decimals
    THEN n * Pow10(decimals - digits)
    ELSE (2 * n + Pow10(digits - decimals)) \div (2 * Pow10(digits - decimals))

\* The wallet after the swap request out of an evaluation on i has executed at
\* the quoted USD prices: the amount parsed with the sold token's decimals
\* leaves, its USD value arrives in the other token (down to a smallest unit).
SwapExecuted(i, out) ==
  LET sold0 == IF out.swap = "0to1" THEN ParseUnits(out.n, out.digits, Dec0) ELSE 0
      sold1 == IF out.swap = "1to0" THEN ParseUnits(out.n, out.digits, Dec1) ELSE 0
      bought0 == (sold1 * i.token1PriceUSD * Pow10(Dec0)) \div (i.token0PriceUSD * Pow10(Dec1))
      bought1 == (sold0 * i.token0PriceUSD * Pow10(Dec1)) \div (i.token1PriceUSD * Pow10(Dec0))
  IN  [balanceWei0 |-> i.balanceWei0 - sold0 + bought0,
       balanceWei1 |-> i.balanceWei1 - sold1 + bought1]

\* The swap decisions an evaluation can reach.
RebalanceOutcomes == {RebalanceOf(i).swap : i \in RbInputs}

\* getTokenPairBalances, then fetchPriceUSD for both tokens, resolved (neither
\* rejects: failures are reported as zero balances and null prices; no shared
\* state changes between the two awaits; a rejection of getTokenPairBalances is
\* caught at the end of the callback and ends it like an evaluation without a
\* swap). The evaluation runs to the swap request or to the end of the callback.
ReadsReturn(r) ==
  /\ mainPc = "monitoring"
  /\ r.pc = "reads"
  /\ \E outcome \in RebalanceOutcomes :
       runs' = IF outcome \in {"1to0", "0to1"} THEN Moved(r, "swap") ELSE Ended(r)
  /\ UNCHANGED <<currentPositionId, outOfRangeCount, isProcessing, mainPc,
                 liquid, minted, removalRequests, run, recording, sz, rb, mathVars>>

\* executeSwap resolved (it catches its own errors): the callback ends.
SwapReturns(r) ==
  /\ mainPc = "monitoring"
  /\ r.pc = "swap"
  /\ runs' = Ended(r)
  /\ UNCHANGED <<currentPositionId, outOfRangeCount, isProcessing, mainPc,
                 liquid, minted, removalRequests, run, recording, sz, rb, mathVars>>

-----------------------------------------------------------------------------
\* The scheduler specification.

InitMonitor ==
  /\ currentPositionId = None
  /\ outOfRangeCount = 0
  /\ isProcessing = FALSE
  /\ mainPc = "main_analyze"
  /\ runs = EmptyBag
  /\ removalRequests = {}
  /\ run = 0

\* At start the wallet holds no position of the pair, or one.
InitScheduler ==
  /\ InitMonitor
  /\ \E existing \in {0, 1} :
       /\ minted = existing
       /\ liquid = 1..existing
  /\ sz = SzIdle
  /\ rb = RbIdle
  /\ MathIdle

Init ==
  /\ InitScheduler
  /\ recording = FALSE

Next ==
  \/ MainAdopts
  \/ MainNoMatch
  \/ MainAnalyzeFails
  \/ MainSizeReturns
  \/ MainMintSucceeds
  \/ MainMintFails
  \/ TimerTick
  \/ \E r \in InFlight : SizeReturns(r)
  \/ \E r \in InFlight : MintSucceeds(r)
  \/ \E r \in InFlight : MintFails(r)
  \/ \E r \in InFlight : GetPosThrows(r)
  \/ \E r \in InFlight : GetPosClosed(r)
  \/ \E r \in InFlight : GetPosInRange(r)
  \/ \E r \in InFlight : GetPosOutOfRange(r)
  \/ \E r \in InFlight : RemoveSucceeds(r)
  \/ \E r \in InFlight : RemoveReverts(r)
  \/ \E r \in InFlight : RemoveThrows(r)
  \/ \E r \in InFlight : ReadsReturn(r)
  \/ \E r \in InFlight : SwapReturns(r)
  \/ \E p \in Ids : ExternalClose(p)
  \/ Shutdown

Spec == Init /\ [][Next]_vars

\* The same program, its behaviours recorded in removalRequests and run.
InitHistory ==
  /\ InitScheduler
  /\ recording = TRUE

SpecHistory == InitHistory /\ [][Next]_vars

-----------------------------------------------------------------------------
\* Properties of the scheduler.

\* C1: at most one monitoring cycle executes at any time; a timer firing while
\* a previous cycle is suspended on an external call starts nothing.
C1_AtMostOneCycle == BagCardinality(runs) <= 1

\* C2: a removal request for the tracked position is emitted only once, and
\* only when the run of consecutive out-of-range observations of that position
\* has reached OUT_OF_RANGE_THRESHOLD, never earlier.
C2_RemovalOnceAtThreshold ==
  [][\A r \in InFlight :
       (r.pc = "getPos" /\ r.pos = currentPositionId
          /\ runs' = Observed(r, "remove", "out"))
         => (r.pos \notin removalRequests /\ run' >= OUT_OF_RANGE_THRESHOLD)]_vars

RunStep(r) ==
  \/ SizeReturns(r) \/ MintSucceeds(r) \/ MintFails(r)
  \/ GetPosThrows(r) \/ GetPosClosed(r) \/ GetPosInRange(r) \/ GetPosOutOfRange(r)
  \/ RemoveSucceeds(r) \/ RemoveReverts(r) \/ RemoveThrows(r)
  \/ ReadsReturn(r) \/ SwapReturns(r)

AwaitRank(pcv) ==
  CASE pcv = "create_size" -> 1
    [] pcv = "create_mint" -> 2
    [] pcv = "getPos" -> 1
    [] pcv = "remove" -> 2
    [] pcv = "reads" -> 3
    [] pcv = "swap" -> 4

\* While the process runs, every run in flight can take a step whatever its
\* collaborator answers, and the timer can start the next cycle.
C12_NothingStuck ==
  mainPc = "monitoring"
    => /\ \A r \in InFlight : ENABLED RunStep(r)
       /\ BagCardinality(runs) < MaxCycles => ENABLED TimerTick

\* No step of a cycle ends the process, and every step that changes the runs in
\* flight starts one, ends one, or moves one on to a later await.
C12_StepsAdvance ==
  /\ mainPc = "monitoring" => mainPc' \in {"monitoring", "stopped"}
  /\ runs' # runs
       => \/ \E pcv \in {"create_size", "getPos"} :
               runs' = Started(Run(pcv, currentPositionId))
          \/ \E r \in InFlight : runs' = Ended(r)
          \/ \E r \in InFlight : \E pcv \in {"create_mint", "remove", "reads", "swap"} :
               \E seen \in {"none", "in", "out"} :
                 /\ AwaitRank(pcv) > AwaitRank(r.pc)
                 /\ runs' = Observed(r, pcv, seen)

\* C12: no failure of a collaborator inside a cycle is process-fatal or escapes
\* the cycle; every started cycle terminates (each of its steps ends it or
\* moves it to a later await, and it is never stuck) and the timer starts the
\* next cycle.
C12_CyclesTerminate == []C12_NothingStuck /\ [][C12_StepsAdvance]_vars

\* After the creation attempt of main failed, a cycle started by the timer is
\* attempting creation again.
C12_Witness ==
  /\ mainPc = "monitoring"
  /\ minted = 0
  /\ currentPositionId = None
  /\ \E r \in InFlight : r.pc = "create_size"

\* C13: a sizing error during position creation aborts only that attempt: the
\* cycle ends there (no retry inside it) with no position tracked and the
\* out-of-range counter unchanged.
C13_SizingErrorAbortsCreation ==
  [][\A r \in InFlight :
       (r.pc = "create_size" /\ runs' = Ended(r))
         => (currentPositionId' = None /\ outOfRangeCount' = outOfRangeCount)]_vars

\* C14: on a shutdown signal received while a cycle is in flight the timer is
\* stopped only after that cycle has completed: once the process has stopped,
\* no cycle is left cut short at one of its awaits.
C14_CycleCompletesBeforeStop == mainPc = "stopped" => runs = EmptyBag

\* C10: whenever a position id begins being tracked its counter is 0.
C10_CounterZeroWhenTrackingBegins ==
  [][(currentPositionId' # None /\ currentPositionId' # currentPositionId)
       => outOfRangeCount' = 0]_vars

\* createPosition calls awaited and not yet settled: the one of main and those
\* of the callback runs.
MintsPending ==
  (IF mainPc = "create_mint" THEN 1 ELSE 0)
    + CopiesIn(Run("create_mint", None), runs)

\* C24: at most one createPosition call is pending at a time, in every
\* interleaving of timer ticks with a slow creation, startup included.
C24_OneCreationPending == MintsPending <= 1

\* C25: after a removal attempt the monitor stops tracking the position only
\* if the removal succeeded: when the removal transaction was mined but
\* reverted, so that the position still holds its liquidity, the position stays
\* tracked and the counter is not reset.
C25_ClearedOnlyAfterConfirmedRemoval ==
  [][\A r \in InFlight :
       (r.pc = "remove" /\ runs' = Moved(r, "reads") /\ r.pos \in liquid')
         => (currentPositionId' = currentPositionId /\ outOfRangeCount' = outOfRangeCount)]_vars

-----------------------------------------------------------------------------
\* The rebalance specification: one evaluation per behaviour.

\* The state the health step of the cycle leaves behind: a position tracked
\* with a count below the threshold, or none tracked (found closed, or removed).
InitRebalance ==
  /\ recording = FALSE
  /\ isProcessing = FALSE
  /\ mainPc = "monitoring"
  /\ runs = EmptyBag
  /\ removalRequests = {}
  /\ run = 0
  /\ minted = 1
  /\ \E tracked \in BOOLEAN :
       /\ currentPositionId = IF tracked THEN 1 ELSE None
       /\ liquid = IF tracked THEN {1} ELSE {}
  /\ outOfRangeCount \in 0..(OUT_OF_RANGE_THRESHOLD - 1)
  /\ sz = SzIdle
  /\ MathIdle
  /\ \E i \in RbInputs : rb = [RbIdle EXCEPT !.in = i, !.phase = "called"]

RebalanceStep(kind) ==
  /\ rb.phase = "called"
  /\ RebalanceOf(rb.in).swap = kind
  /\ rb' = [rb EXCEPT !.phase = "done", !.out = RebalanceOf(rb.in)]
  /\ UNCHANGED <<monitorVars, sz, mathVars>>

\* Either price is null: the callback returns before the evaluation.
RebalanceNoPrice ==
  /\ rb.phase = "called"
  /\ RebalanceStep("noprice")
\* ratio0 <= REBALANCE_THRESHOLD: executeSwap token1 -> token0 is called.
RebalanceSwap1to0 ==
  /\ rb.phase = "called"
  /\ RebalanceStep("1to0")
\* else ratio1 <= REBALANCE_THRESHOLD: executeSwap token0 -> token1 is called.
RebalanceSwap0to1 ==
  /\ rb.phase = "called"
  /\ RebalanceStep("0to1")
\* Neither ratio is low: only the log line.
RebalanceNoSwap ==
  /\ rb.phase = "called"
  /\ RebalanceStep("none")

\* executeSwap resolved with success and the next cycle reached its
\* evaluation: the wallet holds the balances the swap left and the reads may
\* fail again. The USD prices fetched are those of the cycle before (with
\* prices that move, value is created from one cycle to the next and the
\* balances are unbounded). The health step of the next cycle is left out: the
\* evaluation does not depend on it.
SwapExecutes ==
  /\ rb.phase = "done"
  /\ rb.out.swap \in {"1to0", "0to1"}
  /\ LET after == SwapExecuted(rb.in, rb.out)
     IN  /\ after.balanceWei0 >= 0
         /\ after.balanceWei1 >= 0
         /\ \E f0, f1 \in BOOLEAN :
              rb' = [rb EXCEPT !.phase = "called",
                               !.prev = [in |-> rb.in, out |-> rb.out],
                               !.in = [balanceWei0 |-> after.balanceWei0,
                                       balanceWei1 |-> after.balanceWei1,
                                       failed0 |-> f0, failed1 |-> f1,
                                       token0PriceUSD |-> rb.in.token0PriceUSD,
                                       token1PriceUSD |-> rb.in.token1PriceUSD]]
  /\ UNCHANGED <<monitorVars, sz, mathVars>>

NextRebalance ==
  \/ RebalanceNoPrice
  \/ RebalanceSwap1to0
  \/ RebalanceSwap0to1
  \/ RebalanceNoSwap
  \/ SwapExecutes

SpecRebalance == InitRebalance /\ [][NextRebalance]_vars

-----------------------------------------------------------------------------
\* Properties of the rebalance evaluation. With S = 10^decimals0 * 10^decimals1
\* (decimals as read), rb.out.value0 and rb.out.value1 are the USD values times
\* S and amountIn is rb.out.n / 10^rb.out.digits.

RbToken0 == ReadBalance(rb.in.balanceWei0, Dec0, rb.in.failed0)
RbToken1 == ReadBalance(rb.in.balanceWei1, Dec1, rb.in.failed1)
RbScale == Pow10(RbToken0.decimals) * Pow10(RbToken1.decimals)
RbTotal == rb.out.value0 + rb.out.value1
RbPriced == rb.in.token0PriceUSD > 0 /\ rb.in.token1PriceUSD > 0
Abs(x) == IF x < 0 THEN -x ELSE x

\* 100 * 10^digits * S * (valueUSD + amountIn * priceUSD - 0.30 * total).
RbMiss(value, priceUSD) ==
  100 * value * Pow10(rb.out.digits) + 100 * rb.out.n * priceUSD * RbScale
    - TARGET_PCT * RbTotal * Pow10(rb.out.digits)

\* C11: if either USD price is unobtainable the evaluation emits no swap
\* request, and what the health step of the cycle did stands: the tracked id,
\* the counter and the removal requests are as the health step left them.
C11_NoSwapWithoutPrice ==
  [][(rb.phase = "called" /\ rb'.phase = "done" /\ ~RbPriced)
       => /\ rb'.out.swap \notin {"1to0", "0to1"}
          /\ currentPositionId' = currentPositionId
          /\ outOfRangeCount' = outOfRangeCount
          /\ removalRequests' = removalRequests]_vars

\* An evaluation ended without a swap for want of token0's price while the
\* wallet held token1 of known price, in a cycle whose health step had counted
\* an out-of-range observation.
C11_Witness ==
  /\ rb.phase = "done"
  /\ rb.in.token0PriceUSD = 0
  /\ rb.in.token1PriceUSD > 0
  /\ rb.in.balanceWei1 > 0
  /\ ~rb.in.failed1
  /\ rb.out.swap = "noprice"
  /\ currentPositionId # None
  /\ outOfRangeCount > 0

\* C6: an evaluation emits at most one swap: token1 -> token0 with amountIn =
\* (0.30 * total - valueUSD_0) / priceUSD_1 if ratio0 <= REBALANCE_THRESHOLD,
\* else token0 -> token1 with amountIn = (0.30 * total - valueUSD_1) / priceUSD_0
\* if ratio1 <= REBALANCE_THRESHOLD, else none; amountIn is taken to the
\* precision of the token sold (half of its smallest unit).
C6_SwapDecision ==
  (rb.phase = "done" /\ RbPriced)
    => IF RbTotal > 0 /\ 100 * rb.out.value0 <= REBALANCE_THRESHOLD_PCT * RbTotal
         THEN /\ rb.out.swap = "1to0"
              /\ 2 * Abs(RbMiss(rb.out.value0, rb.in.token1PriceUSD)) * Pow10(RbToken1.decimals)
                   <= 100 * rb.in.token1PriceUSD * RbScale * Pow10(rb.out.digits)
       ELSE IF RbTotal > 0 /\ 100 * rb.out.value1 <= REBALANCE_THRESHOLD_PCT * RbTotal
         THEN /\ rb.out.swap = "0to1"
              /\ 2 * Abs(RbMiss(rb.out.value1, rb.in.token0PriceUSD)) * Pow10(RbToken0.decimals)
                   <= 100 * rb.in.token0PriceUSD * RbScale * Pow10(rb.out.digits)
       ELSE rb.out.swap = "none"

\* C7 as stated: the token1 -> token0 swap is sized so that
\* valueUSD_0 + amountIn * priceUSD_1 = 0.30 * total exactly.
C7_ExactTarget ==
  (rb.phase = "done" /\ rb.out.swap = "1to0")
    => RbMiss(rb.out.value0, rb.in.token1PriceUSD) = 0

\* C7 as amended: amountIn is (0.30 * total - valueUSD_0) / priceUSD_1 rounded
\* to token1's decimals, so valueUSD_0 + amountIn * priceUSD_1 differs from
\* 0.30 * total by at most priceUSD_1 times half of token1's smallest unit.
C7_TargetWithinRounding ==
  (rb.phase = "done" /\ rb.out.swap = "1to0")
    => /\ rb.out.digits = RbToken1.decimals
       /\ 2 * Abs(RbMiss(rb.out.value0, rb.in.token1PriceUSD))
            <= 100 * rb.in.token1PriceUSD * RbScale

\* A token1 -> token0 swap was emitted while token0 held some value, and the
\* amount had to be rounded.
C7_Witness ==
  /\ rb.phase = "done"
  /\ rb.out.swap = "1to0"
  /\ rb.out.value0 > 0
  /\ rb.out.n > 0
  /\ RbMiss(rb.out.value0, rb.in.token1PriceUSD) # 0

\* C26: a failed wallet-balance read never causes a swap: if reading either
\* token's balance failed, the evaluation emits no swap request.
C26_NoSwapAfterFailedRead ==
  (rb.phase = "done" /\ (rb.in.failed0 \/ rb.in.failed1))
    => rb.out.swap \notin {"1to0", "0to1"}

\* C27: every swap request emitted has an amountIn that is strictly positive
\* and not larger than the balance read of the token sold, for all
\* non-negative balances and positive USD prices.
C27_AmountInWithinBalance ==
  (rb.phase = "done" /\ RbPriced)
    => /\ rb.out.swap = "1to0"
            => /\ rb.out.n > 0
               /\ rb.out.n * Pow10(RbToken1.decimals)
                    <= RbToken1.balanceWei * Pow10(rb.out.digits)
       /\ rb.out.swap = "0to1"
            => /\ rb.out.n > 0
               /\ rb.out.n * Pow10(RbToken0.decimals)
                    <= RbToken0.balanceWei * Pow10(rb.out.digits)

\* The evaluation follows a swap that was emitted on balances read without
\* failure and has executed at the prices quoted, which are unchanged; the
\* reads succeed again.
RbFollowsSwap ==
  /\ rb.phase = "done"
  /\ rb.prev.out.swap \in {"1to0", "0to1"}
  /\ ~rb.prev.in.failed0 /\ ~rb.prev.in.failed1
  /\ ~rb.in.failed0 /\ ~rb.in.failed1

\* C29: after a swap emitted by one evaluation has executed at the quoted USD
\* prices, the next evaluation with unchanged prices emits no swap in either
\* direction.
C29_NoRetrigger == RbFollowsSwap => rb.out.swap \notin {"1to0", "0to1"}

\* What holds of two consecutive evaluations: a swap of a positive amountIn
\* that has executed is followed by no swap.
NoRetriggerAfterPositiveSwap ==
  (RbFollowsSwap /\ rb.prev.out.n > 0) => rb.out.swap \notin {"1to0", "0to1"}

-----------------------------------------------------------------------------
\* The sizer specification: one call of computeCounterpartyAmounts per behaviour.

InitSizer ==
  /\ InitMonitor
  /\ recording = FALSE
  /\ MathIdle
  /\ minted = 0
  /\ liquid = {}
  /\ rb = RbIdle
  /\ \E b0 \in 0..MaxBal, b1 \in 0..MaxBal, e \in BOOLEAN, ps \in PoolStates :
       sz = [balanceWei0 |-> b0, balanceWei1 |-> b1, envSet |-> e, tick |-> ps.tick,
             sqrtPriceX96 |-> ps.sqrtPriceX96, phase |-> "called",
             out |-> computeCounterpartyAmounts(0, 0, FALSE, 0, Q96)]

\* The promise resolves with amounts and the tick range.
SizerResolves ==
  /\ sz.phase = "called"
  /\ SizerCall.status = "ok"
  /\ sz' = [sz EXCEPT !.phase = "resolved", !.out = SizerCall]
  /\ UNCHANGED <<monitorVars, rb, mathVars>>

\* The promise rejects with the RangeError of a division by zero.
SizerRejects ==
  /\ sz.phase = "called"
  /\ SizerCall.status = "divzero"
  /\ sz' = [sz EXCEPT !.phase = "rejected", !.out = SizerCall]
  /\ UNCHANGED <<monitorVars, rb, mathVars>>

NextSizer == SizerResolves \/ SizerRejects

SpecSizer == InitSizer /\ [][NextSizer]_vars

-----------------------------------------------------------------------------
\* Properties of the sizer.

SizerReturned == sz.phase \in {"resolved", "rejected"}
SqrtLowerOf(o) == getSqrtRatioAtTick(o.tickLower)
SqrtUpperOf(o) == getSqrtRatioAtTick(o.tickUpper)

\* C4: every result returned satisfies 0 <= amount0 <= bal0 and
\* 0 <= amount1 <= bal1 for the deployable balances bal0, bal1.
C4_AmountsWithinBalances ==
  sz.phase = "resolved"
    => /\ 0 <= sz.out.amount0 /\ sz.out.amount0 <= sz.out.bal0
       /\ 0 <= sz.out.amount1 /\ sz.out.amount1 <= sz.out.bal1

\* C5: with value0 = bal0 * sqrtPriceX96^2 / 2^192, a result returned has
\* amount0 = bal0 and amount1 derived from the liquidity solved from bal0 when
\* value0 < bal1, and amount1 = bal1 and amount0 derived from the liquidity
\* solved from bal1 otherwise.
C5_BindingSide ==
  sz.phase = "resolved"
    => LET o == sz.out
           P == sz.sqrtPriceX96
           L == SqrtLowerOf(o)
           U == SqrtUpperOf(o)
       IN  IF o.bal0 * P * P < o.bal1 * Q96 * Q96
             THEN /\ o.amount0 = o.bal0
                  /\ U # P
                  /\ o.amount1 = (((o.bal0 * P * U) \div ((U - P) * Q96)) * (P - L)) \div Q96
             ELSE /\ o.amount1 = o.bal1
                  /\ P # L
                  /\ o.amount0 = (((o.bal1 * Q96) \div (P - L)) * (U - P) * Q96) \div (U * P)

\* Both orientations have produced a result in which the two sides differ in value.
C5_Witness ==
  /\ sz.phase = "resolved"
  /\ sz.out.bal0 > 0
  /\ sz.out.bal1 > 0
  /\ sz.out.bal0 * sz.sqrtPriceX96 * sz.sqrtPriceX96 < sz.out.bal1 * Q96 * Q96
  /\ sz.out.amount0 = sz.out.bal0
  /\ sz.out.amount1 > 0
  /\ sz.out.amount1 # sz.out.bal1

\* C15: whenever a deployable balance is below the dust floor, as a zero balance
\* is for every floor, the call fails with InsufficientBalance and returns no
\* result from which a creation request could be built.
C15_InsufficientBalance ==
  (SizerReturned /\ (sz.out.bal0 = 0 \/ sz.out.bal1 = 0))
    => (sz.phase = "rejected" /\ sz.out.status = "InsufficientBalance")

\* C16: the deployable balance of each token is floor(raw * 40 / 100) of the raw
\* wallet balance, and never exceeds the raw balance.
C16_DeployableFraction ==
  SizerReturned
    => /\ sz.out.bal0 = (sz.balanceWei0 * BALANCE_RATIO) \div 100
       /\ sz.out.bal1 = (sz.balanceWei1 * BALANCE_RATIO) \div 100
       /\ sz.out.bal0 <= sz.balanceWei0
       /\ sz.out.bal1 <= sz.balanceWei1

\* C17: the tick range of the result is nearestUsableTick(pool.tick,
\* pool.tickSpacing, rangeWidth) with rangeWidth the configured TICK_RANGE.
C17_ConfiguredRangeWidth ==
  SizerReturned
    => LET range == nearestUsableTick(sz.tick, TickSpacing, TICK_RANGE)
       IN  /\ sz.out.tickLower = range.tickLower
           /\ sz.out.tickUpper = range.tickUpper

\* C8: when sqrtPriceX96 equals the sqrt price of the range's lower or upper
\* tick, the call fails with PriceAtRangeBoundary: no division by zero, no
\* result with a silently zero amount.
C8_PriceAtRangeBoundary ==
  (SizerReturned /\ sz.sqrtPriceX96 \in {SqrtLowerOf(sz.out), SqrtUpperOf(sz.out)})
    => (sz.phase = "rejected" /\ sz.out.status = "PriceAtRangeBoundary")

\* The scenario of C9 at the model's scale: tick 0, sqrtPriceX96 = 2^96, and
\* unequal positive deployable balances, token0's the larger.
C9_Scenario ==
  /\ SizerReturned
  /\ sz.tick = 0
  /\ sz.sqrtPriceX96 = Q96
  /\ sz.out.bal0 > sz.out.bal1
  /\ sz.out.bal1 > 0

\* C9 as stated: in the scenario the sizer returns tickLower = -60 and
\* tickUpper = 60, one amount equal to its full deployable balance and the other
\* strictly positive and strictly smaller than its balance.
C9_SymmetricRange ==
  C9_Scenario
    => /\ sz.phase = "resolved"
       /\ sz.out.tickLower = -60
       /\ sz.out.tickUpper = 60
       /\ \/ /\ sz.out.amount0 = sz.out.bal0
             /\ 0 < sz.out.amount1 /\ sz.out.amount1 < sz.out.bal1
          \/ /\ sz.out.amount1 = sz.out.bal1
             /\ 0 < sz.out.amount0 /\ sz.out.amount0 < sz.out.bal0

\* C9 as amended: in the scenario the range chosen is tickLower = 0,
\* tickUpper = 60; sqrtPriceX96 is the sqrt price of the lower tick and the call
\* fails without a result.
C9_RangeFromTickZero ==
  C9_Scenario
    => /\ sz.out.tickLower = 0
       /\ sz.out.tickUpper = 60
       /\ sz.sqrtPriceX96 = SqrtLowerOf(sz.out)
       /\ sz.phase = "rejected"

C9_Witness == C9_Scenario /\ sz.phase = "rejected" /\ sz.out.tickLower = 0

-----------------------------------------------------------------------------
\* The tick-range specification: one call of nearestUsableTick per behaviour.

InitMath ==
  /\ InitMonitor
  /\ recording = FALSE
  /\ minted = 0
  /\ liquid = {}
  /\ sz = SzIdle
  /\ rb = RbIdle

InitTicks ==
  /\ InitMath
  /\ dl = DlIdle
  /\ pv = PvIdle
  /\ fc = FcIdle
  /\ \E i \in NtInputs : nt = [NtIdle EXCEPT !.in = i, !.phase = "called"]

NearestUsableTickReturns ==
  /\ nt.phase = "called"
  /\ nt' = [nt EXCEPT !.phase = "done",
                      !.out = nearestUsableTick(nt.in.tick, nt.in.tickSpacing,
                                                nt.in.rangeWidth)]
  /\ UNCHANGED <<monitorVars, sz, rb, dl, pv, fc>>

NextTicks == NearestUsableTickReturns

SpecTicks == InitTicks /\ [][NextTicks]_vars

\* C18: for every tick, positive tickSpacing and rangeWidth >= 1 the range has
\* tickLower < tickUpper, both exact multiples of tickSpacing, and
\* tickLower <= tick <= tickUpper.
C18_UsableRange ==
  nt.phase = "done"
    => /\ nt.out.tickLower < nt.out.tickUpper
       /\ nt.out.tickLower % nt.in.tickSpacing = 0
       /\ nt.out.tickUpper % nt.in.tickSpacing = 0
       /\ nt.out.tickLower <= nt.in.tick
       /\ nt.in.tick <= nt.out.tickUpper

\* The range of a negative tick that is an exact multiple of a spacing > 1.
C18_Witness ==
  /\ nt.phase = "done"
  /\ nt.in.tick < 0
  /\ nt.in.tickSpacing > 1
  /\ nt.in.tick % nt.in.tickSpacing = 0
  /\ nt.out.tickUpper = nt.in.tick + nt.in.tickSpacing

\* C19: with rangeWidth 1 the range is (floor(tick/s)*s, ceil(tick/s)*s), the
\* upper tick being lower + s when tick is an exact multiple, exactly s wide;
\* with rangeWidth w > 1 it is that range widened by (w-1)*s on each side,
\* exactly (2w-1)*s wide.
C19_RangeFormula ==
  nt.phase = "done"
    => LET s == nt.in.tickSpacing
           w == nt.in.rangeWidth
           below == nt.in.tick - (nt.in.tick % s)
           above == IF nt.in.tick % s = 0 THEN below + s
                                          ELSE nt.in.tick + (s - (nt.in.tick % s))
       IN  /\ nt.out.tickLower = below - (w - 1) * s
           /\ nt.out.tickUpper = above + (w - 1) * s
           /\ nt.out.tickUpper - nt.out.tickLower = (2 * w - 1) * s

\* A range of the configured width around a negative tick between two multiples.
C19_Witness ==
  /\ nt.phase = "done"
  /\ nt.in.rangeWidth = TICK_RANGE
  /\ nt.in.tick < 0
  /\ nt.in.tick % nt.in.tickSpacing # 0
  /\ nt.out.tickUpper - nt.out.tickLower = 9 * nt.in.tickSpacing

-----------------------------------------------------------------------------
\* The amount-delta specification: one call of getAmount0Delta and of
\* getAmount1Delta per behaviour, on the same arguments, and one call of
\* mulDivRoundingUp(liquidity, sqrtRatioBX96, sqrtRatioAX96).

InitDeltas ==
  /\ InitMath
  /\ nt = NtIdle
  /\ pv = PvIdle
  /\ fc = FcIdle
  /\ \E i \in DlInputs : dl = [DlIdle EXCEPT !.in = i, !.phase = "called"]

DeltasReturn ==
  /\ dl.phase = "called"
  /\ dl' = [dl EXCEPT !.phase = "done",
                      !.amount0 = getAmount0Delta(dl.in.sqrtRatioAX96, dl.in.sqrtRatioBX96,
                                                  dl.in.liquidity, dl.in.roundUp),
                      !.amount1 = getAmount1Delta(dl.in.sqrtRatioAX96, dl.in.sqrtRatioBX96,
                                                  dl.in.liquidity, dl.in.roundUp),
                      !.mulDiv = mulDivRoundingUp(dl.in.liquidity, dl.in.sqrtRatioBX96,
                                                  dl.in.sqrtRatioAX96)]
  /\ UNCHANGED <<monitorVars, sz, rb, nt, pv, fc>>

NextDeltas == DeltasReturn

SpecDeltas == InitDeltas /\ [][NextDeltas]_vars

\* C20: getAmount0Delta and getAmount1Delta return the same value with their
\* two sqrt prices swapped, in both rounding directions, and do not decrease
\* when liquidity grows.
C20_DeltasSymmetricMonotone ==
  dl.phase = "done"
    => LET A == dl.in.sqrtRatioAX96
           B == dl.in.sqrtRatioBX96
           L == dl.in.liquidity
           up == dl.in.roundUp
       IN  /\ dl.amount0 = getAmount0Delta(B, A, L, up)
           /\ dl.amount1 = getAmount1Delta(B, A, L, up)
           /\ dl.amount0 <= getAmount0Delta(A, B, L + 1, up)
           /\ dl.amount1 <= getAmount1Delta(A, B, L + 1, up)

\* Deltas computed with the larger price given first, rounding up, and a
\* positive amount of token0.
C20_Witness ==
  /\ dl.phase = "done"
  /\ dl.in.sqrtRatioAX96 > dl.in.sqrtRatioBX96
  /\ dl.in.roundUp
  /\ dl.in.liquidity > 0
  /\ dl.amount0 > 0

\* The sqrt prices of the call in order, and the exact quotients' numerators.
DlLow ==
  IF dl.in.sqrtRatioAX96 > dl.in.sqrtRatioBX96 THEN dl.in.sqrtRatioBX96 ELSE dl.in.sqrtRatioAX96
DlHigh ==
  IF dl.in.sqrtRatioAX96 > dl.in.sqrtRatioBX96 THEN dl.in.sqrtRatioAX96 ELSE dl.in.sqrtRatioBX96
DlNumerator0 == dl.in.liquidity * Q96 * (DlHigh - DlLow)
DlNumerator1 == dl.in.liquidity * (DlHigh - DlLow)

\* q is the ceiling of num / den, and q is its floor (den > 0).
IsCeil(q, num, den) == (q - 1) * den < num /\ num <= q * den
IsFloor(q, num, den) == q * den <= num /\ num < (q + 1) * den

\* C22: the rounding direction is honoured: getAmount0Delta returns the
\* ceiling of L*2^96*(B-A)/(A*B) when roundUp and its floor otherwise,
\* getAmount1Delta the ceiling of L*(B-A)/2^96 when roundUp and its floor
\* otherwise, mulDivRoundingUp(a, b, d) the ceiling of a*b/d; the rounded-up
\* result is the rounded-down one or that plus 1.
C22_RoundingHonored ==
  dl.phase = "done"
    => /\ IF dl.in.roundUp
            THEN /\ IsCeil(dl.amount0, DlNumerator0, DlLow * DlHigh)
                 /\ IsCeil(dl.amount1, DlNumerator1, Q96)
            ELSE /\ IsFloor(dl.amount0, DlNumerator0, DlLow * DlHigh)
                 /\ IsFloor(dl.amount1, DlNumerator1, Q96)
       /\ IsCeil(dl.mulDiv, dl.in.liquidity * dl.in.sqrtRatioBX96, dl.in.sqrtRatioAX96)
       /\ LET other0 == getAmount0Delta(DlLow, DlHigh, dl.in.liquidity, ~dl.in.roundUp)
              other1 == getAmount1Delta(DlLow, DlHigh, dl.in.liquidity, ~dl.in.roundUp)
              up0 == IF dl.in.roundUp THEN dl.amount0 ELSE other0
              down0 == IF dl.in.roundUp THEN other0 ELSE dl.amount0
              up1 == IF dl.in.roundUp THEN dl.amount1 ELSE other1
              down1 == IF dl.in.roundUp THEN other1 ELSE dl.amount1
          IN  /\ up0 - down0 \in {0, 1}
              /\ up1 - down1 \in {0, 1}

\* Deltas rounded up from quotients that are not whole, and a product that its
\* denominator does not divide.
C22_Witness ==
  /\ dl.phase = "done"
  /\ dl.in.roundUp
  /\ dl.amount0 * DlLow * DlHigh > DlNumerator0
  /\ dl.amount1 * Q96 > DlNumerator1
  /\ dl.mulDiv * dl.in.sqrtRatioAX96 > dl.in.liquidity * dl.in.sqrtRatioBX96

-----------------------------------------------------------------------------
\* The position-value specification: one position of liquidity amount valued
\* at one pool state, by getAmount0 and getAmount1, with inRange as
\* getPositionInfo computes it from the same tick.

InitValue ==
  /\ InitMath
  /\ nt = NtIdle
  /\ dl = DlIdle
  /\ fc = FcIdle
  /\ \E pr \in PositionRanges, ps \in PoolStates, amount \in 0..MaxLiq :
       pv = [PvIdle EXCEPT !.phase = "called",
                           !.in = [tickLower |-> pr.tickLower, tickUpper |-> pr.tickUpper,
                                   currTick |-> ps.tick, amount |-> amount,
                                   currSqrtPriceX96 |-> ps.sqrtPriceX96]]

Valued(case) ==
  /\ pv.phase = "called"
  /\ AmountCase(pv.in.tickLower, pv.in.tickUpper, pv.in.currTick) = case
  /\ pv' = [pv EXCEPT !.phase = "done",
                      !.case = case,
                      !.amount0 = getAmount0(pv.in.tickLower, pv.in.tickUpper, pv.in.currTick,
                                             pv.in.amount, pv.in.currSqrtPriceX96),
                      !.amount1 = getAmount1(pv.in.tickLower, pv.in.tickUpper, pv.in.currTick,
                                             pv.in.amount, pv.in.currSqrtPriceX96),
                      !.inRange = InRange(pv.in.currTick, pv.in.tickLower, pv.in.tickUpper)]
  /\ UNCHANGED <<monitorVars, sz, rb, nt, dl, fc>>

\* currTick < tickLower.
ValuedBelow ==
  /\ pv.phase = "called"
  /\ Valued("below")
\* tickLower <= currTick < tickUpper.
ValuedStraddling ==
  /\ pv.phase = "called"
  /\ Valued("straddling")
\* tickUpper <= currTick.
ValuedAbove ==
  /\ pv.phase = "called"
  /\ Valued("above")

NextValue ==
  \/ ValuedBelow
  \/ ValuedStraddling
  \/ ValuedAbove

SpecValue == InitValue /\ [][NextValue]_vars

PvSqrtLower == getSqrtRatioAtTick(pv.in.tickLower)
PvSqrtUpper == getSqrtRatioAtTick(pv.in.tickUpper)

C28_InRangeIsStraddling ==
  (pv.phase = "done" /\ pv.in.amount > 0 /\ pv.inRange)
    => /\ pv.case = "straddling"
       /\ pv.in.currTick = pv.in.tickUpper => pv.amount0 > 0

-----------------------------------------------------------------------------
\* The tick-bitmap specification: one call of findClosestInitializedTick per
\* behaviour, on the contents of the two words it reads.

InitBitmap ==
  /\ InitMath
  /\ nt = NtIdle
  /\ dl = DlIdle
  /\ pv = PvIdle
  /\ \E i \in FcInputs : fc = [FcIdle EXCEPT !.in = i, !.phase = "called"]

FcCall ==
  findClosestInitializedTick(fc.in.lowerBitmap, fc.in.upperBitmap,
                             fc.in.currentTick, fc.in.tickSpacing)

\* An initialized tick is returned.
ClosestTickReturns ==
  /\ fc.phase = "called"
  /\ FcCall.status = "ok"
  /\ fc' = [fc EXCEPT !.phase = "done", !.out = FcCall]
  /\ UNCHANGED <<monitorVars, sz, rb, nt, dl, pv>>

\* Neither loop found a bit set: the Error is thrown.
ClosestTickThrows ==
  /\ fc.phase = "called"
  /\ FcCall.status = "throw"
  /\ fc' = [fc EXCEPT !.phase = "done", !.out = FcCall]
  /\ UNCHANGED <<monitorVars, sz, rb, nt, dl, pv>>

NextBitmap ==
  \/ ClosestTickReturns
  \/ ClosestTickThrows

SpecBitmap == InitBitmap /\ [][NextBitmap]_vars

\* The initialized ticks of the two words read: the word containing
\* currentTick and the next word above it.
FcInitializedTicks ==
  LET wordIndex == Floor(fc.in.currentTick, fc.in.tickSpacing * WordSize)
  IN  {TickOfBit(wordIndex, i, fc.in.tickSpacing) : i \in fc.in.lowerBitmap}
        \cup {TickOfBit(wordIndex + 1, i, fc.in.tickSpacing) : i \in fc.in.upperBitmap}

\* C30: findClosestInitializedTick returns the initialized tick closest to
\* currentTick among all initialized ticks of the two words it reads, for
\* every bitmap content, and throws only when neither word has one.
C30_ClosestInitializedTick ==
  fc.phase = "done"
    => IF FcInitializedTicks = {}
         THEN fc.out.status = "throw"
         ELSE /\ fc.out.status = "ok"
              /\ fc.out.tick \in FcInitializedTicks
              /\ \A t \in FcInitializedTicks :
                   Abs(fc.in.currentTick - fc.out.tick) <= Abs(fc.in.currentTick - t)

====
